---- MODULE Spec2Model ----
(***************************************************************************)
(* A model of the grid fluid solver of src/src/lib.rs and src/src/utils.rs *)
(* (struct Fluid, gauss_seidel, val_after_diff).                           *)
(*                                                                         *)
(* f64 values are modelled as decimal fixed-point numbers: the integer v   *)
(* stands for the real v / Scale, and every multiplication and division    *)
(* rounds to the nearest representable value, as each IEEE-754 operation   *)
(* rounds to the nearest double.  Vec<f64> is a function on 0..len-1.      *)
(***************************************************************************)
EXTENDS Integers, Sequences, FiniteSets, TLC

VARIABLES fluid, history, reads, aborted, ctor, call

vars == <<fluid, history, reads, aborted, ctor, call>>

(***************************************************************************)
(* Bounds of the model.                                                    *)
(***************************************************************************)
MaxN == 3
MaxOps == 3
MaxIter == 2

(***************************************************************************)
(* Number representation.                                                  *)
(***************************************************************************)
Scale == 1000
U16 == 65536
DefaultDt == 100
DiffuseIterations == 10

Abs(a) == IF a < 0 THEN -a ELSE a

\* a / b rounded to the nearest integer (ties away from zero), b # 0
RDiv(a, b) ==
    LET s == IF (a < 0) = (b < 0) THEN 1 ELSE -1
    IN  s * ((2 * Abs(a) + Abs(b)) \div (2 * Abs(b)))

\* f64 multiplication and division on fixed-point operands
FMul(a, b) == RDiv(a * b, Scale)
FDiv(a, b) == RDiv(a * Scale, b)

\* the f64 value of the integer i (`x as f64`)
F64(i) == i * Scale
Floor(f) == (f \div Scale) * Scale
Ceil(f) == (-((-f) \div Scale)) * Scale

\* `f as u16`: truncates toward zero and saturates at the type's range
AsU16(f) ==
    LET t == IF f < 0 THEN 0 ELSE f \div Scale
    IN  IF t > U16 - 1 THEN U16 - 1 ELSE t

\* u16 addition and multiplication of a release build (wrapping)
AddU16(a, b) == (a + b) % U16
MulU16(a, b) ==
    LET ah == a \div 256
        al == a % 256
    IN  ((((ah * b) % 256) * 256) + al * b) % U16
AddOverflows(a, b) == a + b > U16 - 1
MulOverflows(a, b) == a # 0 /\ b > (U16 - 1) \div a

\* vec![fill; len]
Vec(fill, len) == [i \in 0 .. len - 1 |-> fill]
VecLen(v) == Cardinality(DOMAIN v)
\* property[i]; a read outside the vector aborts the call (see reads, aborted)
At(property, i) == IF i \in DOMAIN property THEN property[i] ELSE 0

(***************************************************************************)
(* utils.rs: the relaxation engine.                                        *)
(* A GaussSeidelFunction is a record: kind "diff" is val_after_diff with   *)
(* its DiffLinearEquationArgs (value, k); kind "lin" is an equation of the *)
(* shape of the test's fn1..fn4, (c + a[0]*v[0] + ...) * (1.0 / 10.0).     *)
(***************************************************************************)
DiffLinearEquationArgs_swapped(value, k) == [kind |-> "diff", value |-> k, k |-> value]
DiffLinearEquationArgs(value, k) == [kind |-> "diff", value |-> value, k |-> k]
LinearArgs(c, a) == [kind |-> "lin", c |-> c, a |-> a]

RECURSIVE DotFrom(_, _, _)
DotFrom(a, v, j) ==
    IF j >= VecLen(v) THEN 0 ELSE FMul(F64(a[j]), v[j]) + DotFrom(a, v, j + 1)

val_after_diff_repeats_2(surrounding_property_values, args) ==
    FDiv(args.value
           + FDiv(FMul(args.k,
                       surrounding_property_values[0]
                         + surrounding_property_values[1]
                         + surrounding_property_values[2]
                         + surrounding_property_values[2]),
                  F64(4)),
         F64(1) + args.k)
val_after_diff(surrounding_property_values, args) ==
    FDiv(args.value
           + FDiv(FMul(args.k,
                       surrounding_property_values[0]
                         + surrounding_property_values[1]
                         + surrounding_property_values[2]
                         + surrounding_property_values[3]),
                  F64(4)),
         F64(1) + args.k)

linear_fn(variables, args) ==
    FMul(F64(args.c) + DotFrom(args.a, variables, 0), FDiv(F64(1), F64(10)))

\* GaussSeidelFunction::call
Call(fn, variables) ==
    IF fn.kind = "diff" THEN val_after_diff(variables, fn)
    ELSE linear_fn(variables, fn)

\* the body of the for loop: one unknown replaced in the mutable copy
GsAssign_jacobi(functions, initial_values, clone, index) ==
    [clone EXCEPT ![index] = Call(functions[index], initial_values)]
GsAssign(functions, initial_values, clone, index) ==
    [clone EXCEPT ![index] = Call(functions[index], clone)]

\* The loops run on a record of gauss_seidel's locals.
\* for (index, _) in initial_values.iter().enumerate()
RECURSIVE GsFor(_, _, _)
GsFor(functions, initial_values, loc) ==
    IF loc.index >= VecLen(initial_values) THEN loc.inital_values_clone
    ELSE GsFor(functions, initial_values,
               [inital_values_clone |->
                    GsAssign(functions, initial_values, loc.inital_values_clone, loc.index),
                index |-> loc.index + 1])

\* while iteration < iter
RECURSIVE GsWhile(_, _, _, _)
GsWhile(functions, initial_values, loc, iter) ==
    IF loc.iteration < iter
    THEN GsWhile(functions, initial_values,
                 [inital_values_clone |->
                      GsFor(functions, initial_values,
                            [inital_values_clone |-> loc.inital_values_clone, index |-> 0]),
                  iteration |-> loc.iteration + 1],
                 iter)
    ELSE loc.inital_values_clone

gauss_seidel(functions, initial_values, iter) ==
    GsWhile(functions, initial_values,
            [inital_values_clone |-> initial_values, iteration |-> 0], iter)

(***************************************************************************)
(* lib.rs: Fluid.  `self` is a record of the struct's fields.              *)
(***************************************************************************)
FluidConfig(n, diffusion) == [n |-> n, diffusion |-> diffusion]

\* the six field buffers of the struct
Fields == {"velocity_x", "velocity_y", "density",
           "initial_velocity_x", "initial_velocity_y", "initial_density"}

\* size = (n + 2) * (n + 2) in u16, as a release build computes it
SizeU16(n) == MulU16(AddU16(n, 2), AddU16(n, 2))

new(config) ==
    LET size == SizeU16(config.n)
        vector_size == size
    IN  [config |-> config,
         dt |-> DefaultDt,
         velocity_x |-> Vec(0, vector_size),
         velocity_y |-> Vec(0, vector_size),
         initial_velocity_x |-> Vec(0, vector_size),
         initial_velocity_y |-> Vec(0, vector_size),
         density |-> Vec(0, vector_size),
         initial_density |-> Vec(0, vector_size),
         size |-> size]

ix_wide_row(self, x, y) == AddU16(x, MulU16(AddU16(self.config.n, 3), y))
ix(self, x, y) == AddU16(x, MulU16(AddU16(self.config.n, 2), y))

\* the four equations of a cell, in the order of the vec! passed to gauss_seidel
diffuse_functions(self, x, y, property) ==
    LET k == FMul(self.dt, self.config.diffusion)
    IN  [i \in 0 .. 3 |->
           CASE i = 0 -> DiffLinearEquationArgs(At(property, ix(self, x + 1, y)), k)
             [] i = 1 -> DiffLinearEquationArgs(At(property, ix(self, x - 1, y)), k)
             [] i = 2 -> DiffLinearEquationArgs(At(property, ix(self, x, y + 1)), k)
             [] i = 3 -> DiffLinearEquationArgs(At(property, ix(self, x, y - 1)), k)]

diffuse_east(self, x, y, property) ==
    LET k == FMul(self.dt, self.config.diffusion)
        surrounding_values ==
            gauss_seidel(diffuse_functions(self, x, y, property),
                         Vec(0, 4), DiffuseIterations)
    IN  val_after_diff(surrounding_values,
                       DiffLinearEquationArgs(At(property, ix(self, x + 1, y)), k))
diffuse(self, x, y, property) ==
    LET k == FMul(self.dt, self.config.diffusion)
        surrounding_values ==
            gauss_seidel(diffuse_functions(self, x, y, property),
                         Vec(0, 4), DiffuseIterations)
    IN  val_after_diff(surrounding_values,
                       DiffLinearEquationArgs(At(property, ix(self, x, y)), k))

\* for i in 1..n + 1 { for j in 1..n + 1 { .. } }: the cells in loop order
Cells(n) == [p \in 1 .. n * n |-> <<((p - 1) \div n) + 1, ((p - 1) % n) + 1>>]

RECURSIVE diffuse_density_loop(_, _)
diffuse_density_loop(self, p) ==
    IF p > self.config.n * self.config.n THEN self
    ELSE LET i == Cells(self.config.n)[p][1]
             j == Cells(self.config.n)[p][2]
             index == ix(self, i, j)
         IN  diffuse_density_loop(
                 [self EXCEPT !.density[index] = diffuse(self, i, j, self.initial_density)],
                 p + 1)

diffuse_density_collect(self) ==
    [self EXCEPT !.density =
        [p \in 0 .. self.config.n * self.config.n - 1 |->
            diffuse(self, Cells(self.config.n)[p + 1][1], Cells(self.config.n)[p + 1][2],
                    self.initial_density)]]
diffuse_density(self) == diffuse_density_loop(self, 1)

RECURSIVE diffuse_velocity_loop(_, _)
diffuse_velocity_loop(self, p) ==
    IF p > self.config.n * self.config.n THEN self
    ELSE LET i == Cells(self.config.n)[p][1]
             j == Cells(self.config.n)[p][2]
             index == ix(self, i, j)
             s1 == [self EXCEPT !.velocity_x[index] =
                                   diffuse(self, i, j, self.initial_velocity_x)]
             s2 == [s1 EXCEPT !.velocity_y[index] =
                                   diffuse(s1, i, j, s1.initial_velocity_y)]
         IN  diffuse_velocity_loop(s2, p + 1)

diffuse_velocity(self) == diffuse_velocity_loop(self, 1)

(***************************************************************************)
(* utils: get_surrounding_coords and interpolate, imported by lib.rs but   *)
(* not defined in the source files at hand; modelled from their            *)
(* description: top-left, top-right, bottom-left, bottom-right lattice     *)
(* points around (x, y), each clamped into [0, n + 1], and linear          *)
(* interpolation that returns the value at the coincident coordinate when  *)
(* the two coordinates of a pair are equal.                                *)
(***************************************************************************)
Clamp(f, n) == IF f < 0 THEN 0 ELSE IF f > F64(n + 1) THEN F64(n + 1) ELSE f

get_surrounding_coords(n, x, y) ==
    [i \in 0 .. 3 |->
       CASE i = 0 -> [c \in 0 .. 1 |-> IF c = 0 THEN Clamp(Floor(x), n) ELSE Clamp(Floor(y), n)]
         [] i = 1 -> [c \in 0 .. 1 |-> IF c = 0 THEN Clamp(Ceil(x), n) ELSE Clamp(Floor(y), n)]
         [] i = 2 -> [c \in 0 .. 1 |-> IF c = 0 THEN Clamp(Floor(x), n) ELSE Clamp(Ceil(y), n)]
         [] i = 3 -> [c \in 0 .. 1 |-> IF c = 0 THEN Clamp(Ceil(x), n) ELSE Clamp(Ceil(y), n)]]

interpolate(x1, y1, x2, y2, x) ==
    IF x1 = x2 THEN y1
    ELSE y1 + FDiv(FMul(x - x1, y2 - y1), x2 - x1)

(***************************************************************************)
(* lib.rs: advection.                                                      *)
(***************************************************************************)
\* the back-traced position of cell (x, y) under the current velocity
initial_pos(self, x, y) ==
    [c \in 0 .. 1 |->
        IF c = 0 THEN F64(x) - FMul(At(self.velocity_x, ix(self, x, y)), self.dt)
        ELSE F64(y) - FMul(At(self.velocity_y, ix(self, x, y)), self.dt)]

\* the lattice points advect indexes the source field with, after `as u16`
advect_points(self, x, y) ==
    LET pos == initial_pos(self, x, y)
        surrounding_coords == get_surrounding_coords(self.config.n, pos[0], pos[1])
    IN  {<<AsU16(surrounding_coords[i][0]), AsU16(surrounding_coords[i][1])>> : i \in 0 .. 3}

advect(self, x, y, property) ==
    LET pos == initial_pos(self, x, y)
        initial_pos_x == pos[0]
        initial_pos_y == pos[1]
        surrounding_coords == get_surrounding_coords(self.config.n, initial_pos_x, initial_pos_y)
        src(i) == At(property, ix(self, AsU16(surrounding_coords[i][0]),
                                        AsU16(surrounding_coords[i][1])))
        linear_interpolation_of_top ==
            interpolate(surrounding_coords[0][0], src(0),
                        surrounding_coords[1][0], src(1), initial_pos_x)
        linear_interpolation_of_bottom ==
            interpolate(surrounding_coords[2][0], src(2),
                        surrounding_coords[3][0], src(3), initial_pos_x)
    IN  interpolate(surrounding_coords[0][1], linear_interpolation_of_top,
                    surrounding_coords[2][1], linear_interpolation_of_bottom,
                    initial_pos_y)

\* The advection passes work on a run record: the struct and the lattice
\* points the pass has indexed its source field with so far.
RECURSIVE advect_density_loop(_, _)
advect_density_loop(run, p) ==
    IF p > run.self.config.n * run.self.config.n THEN run
    ELSE LET self == run.self
             i == Cells(self.config.n)[p][1]
             j == Cells(self.config.n)[p][2]
             index == ix(self, i, j)
         IN  advect_density_loop(
                 [self |-> [self EXCEPT !.density[index] =
                                          advect(self, i, j, self.initial_density)],
                  reads |-> run.reads \cup advect_points(self, i, j)],
                 p + 1)

advect_density(run) == advect_density_loop(run, 1)

RECURSIVE advect_velocity_loop(_, _)
advect_velocity_loop(run, p) ==
    IF p > run.self.config.n * run.self.config.n THEN run
    ELSE LET self == run.self
             i == Cells(self.config.n)[p][1]
             j == Cells(self.config.n)[p][2]
             index == ix(self, i, j)
             s1 == [self EXCEPT !.velocity_x[index] =
                                   advect(self, i, j, self.initial_velocity_x)]
             s2 == [s1 EXCEPT !.velocity_y[index] =
                                   advect(s1, i, j, s1.initial_velocity_y)]
         IN  advect_velocity_loop(
                 [self |-> s2,
                  reads |-> run.reads \cup advect_points(self, i, j)
                                      \cup advect_points(s1, i, j)],
                 p + 1)

advect_velocity(run) == advect_velocity_loop(run, 1)

\* std::mem::swap of a pair of fields
swap_density(self) ==
    [self EXCEPT !.density = self.initial_density, !.initial_density = self.density]
swap_velocity_x(self) ==
    [self EXCEPT !.velocity_x = self.initial_velocity_x,
                 !.initial_velocity_x = self.velocity_x]
swap_velocity_y(self) ==
    [self EXCEPT !.velocity_y = self.initial_velocity_y,
                 !.initial_velocity_y = self.velocity_y]
onSelf(run, s) == [run EXCEPT !.self = s]

density_step_one_swap(run) ==
    LET r1 == onSelf(run, diffuse_density(run.self))
        r2 == onSelf(r1, swap_density(r1.self))
    IN  advect_density(r2)
density_step(run) ==
    LET r1 == onSelf(run, diffuse_density(run.self))
        r2 == onSelf(r1, swap_density(r1.self))
        r3 == advect_density(r2)
    IN  onSelf(r3, swap_density(r3.self))

velocity_step(run) ==
    LET r1 == onSelf(run, diffuse_velocity(run.self))
        r2 == onSelf(r1, swap_velocity_y(swap_velocity_x(r1.self)))
        r3 == advect_velocity(r2)
    IN  onSelf(r3, swap_velocity_y(swap_velocity_x(r3.self)))

\* Fluid::simulate as a function of the struct
simulate_run(self) == density_step(velocity_step([self |-> self, reads |-> {}]))

get_density_at_index(self, index) == self.density[index]
get_n(self) == self.config.n
get_size(self) == self.size

(***************************************************************************)
(* The simulation driven by its caller: Init is the state after            *)
(* Fluid::new, one action per public method.  history logs the calls made, *)
(* reads holds the lattice points the advection passes of the last         *)
(* simulate() indexed their source fields with, aborted says that an       *)
(* index left its vector (a bounds-check panic).                           *)
(***************************************************************************)
DiffusionRates == {0, F64(1)}
DensityValues == {F64(100)}
VelocityValues == {<<F64(10), F64(10)>>, <<F64(500), -F64(500)>>}
DtValues == {500}
\* the cells the caller injects at: a border corner, (1,1) and (2,2)
InjectCells == {<<0, 0>>, <<1, 1>>, <<2, 2>>}
VelocityCells == {<<1, 1>>}
InjectIndices(self) == {ix(self, c[1], c[2]) : c \in InjectCells}
VelocityIndices(self) == {ix(self, c[1], c[2]) : c \in VelocityCells}

Idle == [state |-> "idle"]

Interior(self) == {<<x, y>> \in (1 .. self.config.n) \X (1 .. self.config.n) : TRUE}
Border(self) ==
    ((0 .. self.config.n + 1) \X (0 .. self.config.n + 1)) \ Interior(self)

Init ==
    /\ fluid \in {new(FluidConfig(n, d)) : n \in 1 .. MaxN, d \in DiffusionRates}
    /\ history = <<>>
    /\ reads = {}
    /\ aborted = FALSE
    /\ ctor = Idle
    /\ call = Idle

CanCall == ~aborted /\ Len(history) < MaxOps

add_density(index, value) ==
    /\ CanCall
    /\ fluid' = [fluid EXCEPT !.initial_density[index] = @ + FMul(fluid.dt, value)]
    /\ history' = Append(history, [op |-> "add_density", index |-> index, value |-> value])
    /\ UNCHANGED <<reads, aborted, ctor, call>>

add_velocity(index, value_x, value_y) ==
    /\ CanCall
    /\ fluid' = [fluid EXCEPT !.initial_velocity_x[index] = @ + FMul(fluid.dt, value_x),
                              !.initial_velocity_y[index] = @ + FMul(fluid.dt, value_y)]
    /\ history' = Append(history, [op |-> "add_velocity", index |-> index,
                                   value_x |-> value_x, value_y |-> value_y])
    /\ UNCHANGED <<reads, aborted, ctor, call>>

set_dt(dt) ==
    /\ CanCall
    /\ fluid' = [fluid EXCEPT !.dt = dt]
    /\ history' = Append(history, [op |-> "set_dt", dt |-> dt])
    /\ UNCHANGED <<reads, aborted, ctor, call>>

simulate ==
    /\ CanCall
    /\ \E run \in {simulate_run(fluid)} :
           /\ fluid' = run.self
           /\ reads' = run.reads
           /\ aborted' = \E c \in run.reads : ix(fluid, c[1], c[2]) \notin DOMAIN fluid.density
    /\ history' = Append(history, [op |-> "simulate"])
    /\ UNCHANGED <<ctor, call>>

Next ==
    \/ \E index \in InjectIndices(fluid), value \in DensityValues : add_density(index, value)
    \/ \E index \in VelocityIndices(fluid), v \in VelocityValues : add_velocity(index, v[1], v[2])
    \/ \E dt \in DtValues : set_dt(dt)
    \/ simulate

Spec == Init /\ [][Next]_vars

(***************************************************************************)
(* Properties of the simulation (specification Spec).                      *)
(***************************************************************************)
LastOp == IF history = <<>> THEN "none" ELSE history[Len(history)].op
\* the step is a call of simulate()
Simulated == history' # history /\ history'[Len(history')].op = "simulate"
Cell(self, c) == ix(self, c[1], c[2])
AllZero(v) == \A i \in DOMAIN v : v[i] = 0
\* the struct as the velocity advection pass finds it: diffused and swapped
BeforeAdvectVelocity(self) == swap_velocity_y(swap_velocity_x(diffuse_velocity(self)))

\* C1 (as claimed): after simulate() the density buffer holds, at every
\* interior cell, the advection of the diffused density under the settled
\* velocity, i.e. the step's final result.
C1_DensityIsAdvectedResult ==
    [][Simulated =>
         \A c \in Interior(fluid) :
            get_density_at_index(fluid', Cell(fluid, c)) =
                advect(fluid', c[1], c[2], diffuse_density(fluid).density)]_vars

\* C2: with diffusion rate 0 and all velocities zero, simulate() leaves at
\* every interior cell of density the value initial_density had before the
\* step; on a fresh n = 3 simulation with dt = 0.1, add_density(ix(2,2), 100)
\* then simulate() reads back 10.0 at ix(2,2) and 0 at every other cell.
C2_Scenario ==
    /\ fluid.config.n = 3
    /\ fluid.config.diffusion = 0
    /\ history = <<[op |-> "add_density", index |-> ix(fluid, 2, 2), value |-> F64(100)],
                   [op |-> "simulate"]>>
C2_ZeroDiffusionIdentity ==
    /\ [][(/\ Simulated
           /\ fluid.config.diffusion = 0
           /\ AllZero(fluid.velocity_x) /\ AllZero(fluid.velocity_y)
           /\ AllZero(fluid.initial_velocity_x) /\ AllZero(fluid.initial_velocity_y))
          => \A c \in Interior(fluid) :
                get_density_at_index(fluid', Cell(fluid, c)) =
                    fluid.initial_density[Cell(fluid, c)]]_vars
    /\ [](C2_Scenario =>
            \A i \in 0 .. get_size(fluid) - 1 :
               get_density_at_index(fluid, i) =
                   IF i = ix(fluid, 2, 2) THEN F64(10) ELSE 0)
C2_Witness == C2_Scenario /\ get_density_at_index(fluid, ix(fluid, 2, 2)) = F64(10)

C5_BorderUntouched ==
    /\ [][Simulated =>
            \A c \in Border(fluid), f \in Fields :
               fluid'[f][Cell(fluid, c)] = fluid[f][Cell(fluid, c)]]_vars
    /\ [](\A c \in Border(fluid) : fluid.density[Cell(fluid, c)] = 0)
C5_Witness ==
    /\ LastOp = "simulate"
    /\ fluid.config.diffusion > 0
    /\ \E c \in Interior(fluid) : fluid.density[Cell(fluid, c)] > 0
    /\ \E c \in Border(fluid) : fluid.initial_density[Cell(fluid, c)] # 0

\* C7: in every reachable state all six buffers have the length size, the
\* (n + 2)^2 fixed at construction.
C7_BufferLengths ==
    /\ fluid.size = (fluid.config.n + 2) * (fluid.config.n + 2)
    /\ \A f \in Fields : DOMAIN fluid[f] = 0 .. fluid.size - 1
    /\ \A f \in Fields : VecLen(fluid[f]) = get_size(fluid)
C7_Witness ==
    /\ LastOp = "simulate"
    /\ Len(history) >= 3
    /\ \E i \in DOMAIN fluid.density : fluid.density[i] # 0

\* C10 (as claimed): the velocity advection pass back-traces the new
\* velocity_x and the new velocity_y of a cell with the same advecting
\* velocity, the swapped current velocity as it was before the pass wrote
\* the cell.
C10_SameAdvectingVelocity ==
    [][Simulated =>
         LET pre == BeforeAdvectVelocity(fluid)
         IN  \A c \in Interior(fluid) :
                /\ fluid'.initial_velocity_x[Cell(fluid, c)] =
                       advect(pre, c[1], c[2], pre.initial_velocity_x)
                /\ fluid'.initial_velocity_y[Cell(fluid, c)] =
                       advect(pre, c[1], c[2], pre.initial_velocity_y)]_vars

(***************************************************************************)
(* Fluid::new for every u16 interior size.  A vector is represented by its *)
(* fill value and its length.  The u16 arithmetic of line 45 panics on     *)
(* overflow in a build with overflow checks and wraps in one without.      *)
(***************************************************************************)
Builds == {"checked", "wrapping"}

new_shape(n, build) ==
    LET side == AddU16(n, 2)
        overflow == AddOverflows(n, 2) \/ MulOverflows(side, side)
        size == MulU16(side, side)
        vector_size == size
    IN  IF build = "checked" /\ overflow
        THEN [state |-> "panicked", n |-> n]
        ELSE [state |-> "built", n |-> n, size |-> size,
              fill |-> [f \in Fields |-> 0],
              len |-> [f \in Fields |-> vector_size]]

InitNew ==
    /\ ctor = Idle
    /\ fluid = Idle /\ history = <<>> /\ reads = {} /\ aborted = FALSE /\ call = Idle

new_call(n, build) ==
    /\ ctor = Idle
    /\ ctor' = new_shape(n, build)
    /\ UNCHANGED <<fluid, history, reads, aborted, call>>

\* the constructor runs once
NextNew ==
    /\ ctor = Idle
    /\ \E n \in 0 .. U16 - 1, build \in Builds : new_call(n, build)

SpecNew == InitNew /\ [][NextNew]_vars

\* C4 (as claimed): for every u16 n, Fluid::new yields six zero-filled
\* buffers of length (n + 2)^2 and get_size() = (n + 2)^2; the 16-bit
\* product never overflows or wraps.
C4_SizeNeverWraps ==
    ctor.state # "idle" =>
        /\ ctor.state = "built"
        /\ ctor.size % (ctor.n + 2) = 0
        /\ ctor.size \div (ctor.n + 2) = ctor.n + 2
        /\ \A f \in Fields : ctor.len[f] = ctor.size /\ ctor.fill[f] = 0

(***************************************************************************)
(* The solver's pure functions applied to inputs drawn from bounded sets:  *)
(* a call of gauss_seidel on a system of equations, or a call of diffuse   *)
(* on a cell of a source field.                                            *)
(***************************************************************************)
SolveN == 2
\* the system of the test gauss_seidel_works
TestSystem ==
    [i \in 0 .. 3 |->
       CASE i = 0 -> LinearArgs(3, [j \in 0 .. 3 |-> CASE j = 1 -> 2 [] j = 0 -> 0 [] OTHER -> 1])
         [] i = 1 -> LinearArgs(15, [j \in 0 .. 3 |-> CASE j = 0 -> 2 [] j = 1 -> 0 [] OTHER -> 1])
         [] i = 2 -> LinearArgs(27, [j \in 0 .. 3 |-> IF j = 2 THEN 0 ELSE 1])
         [] i = 3 -> LinearArgs(-9, [j \in 0 .. 3 |-> CASE j = 2 -> 2 [] j = 3 -> 0 [] OTHER -> 1])]
\* two coupled unknowns: v0 = (10 + 5 v1) / 10, v1 = (20 + 5 v0) / 10
PairSystem ==
    [i \in 0 .. 1 |->
       IF i = 0 THEN LinearArgs(10, [j \in 0 .. 1 |-> IF j = 1 THEN 5 ELSE 0])
       ELSE LinearArgs(20, [j \in 0 .. 1 |-> IF j = 0 THEN 5 ELSE 0])]
\* a diffusion system with unequal neighbour constants
DiffSystem ==
    [i \in 0 .. 3 |-> DiffLinearEquationArgs(F64(i * 10), F64(1))]
Systems == {TestSystem, PairSystem, DiffSystem}
InitialVectors(m) ==
    {Vec(0, m), Vec(F64(1), m), [i \in 0 .. m - 1 |-> F64(i) - F64(1)],
     [i \in 0 .. m - 1 |-> F64(5 * i)]}
IterValues == (0 .. MaxIter) \cup {DiffuseIterations}

\* source fields on the SolveN grid
Uniform(self, c) == Vec(c, self.size)
FieldAt(self, g(_, _)) ==
    [i \in 0 .. self.size - 1 |-> g(i % (self.config.n + 2), i \div (self.config.n + 2))]
PointField(x, y) == IF x = 1 /\ y = 1 THEN F64(10) ELSE 0
RampField(x, y) == F64(x + 3 * y)
SourceFields(self) ==
    {Uniform(self, 0), Uniform(self, F64(1)), Uniform(self, F64(100)),
     FieldAt(self, PointField), FieldAt(self, RampField)}
SolveDts == {0, DefaultDt, F64(1)}
SolveRates == {0, F64(1), F64(2)}

GsCalls ==
    {[state |-> "called", fn |-> "gauss_seidel", functions |-> fs,
      initial_values |-> v, iter |-> it] :
        fs \in Systems, v \in InitialVectors(4) \cup InitialVectors(2), it \in IterValues}
DiffuseCalls ==
    UNION {
      {[state |-> "called", fn |-> "diffuse", self |-> [self0 EXCEPT !.dt = dt],
        x |-> c[1], y |-> c[2], property |-> F] :
          F \in SourceFields(self0), dt \in SolveDts, c \in Interior(self0)} :
      self0 \in {new(FluidConfig(SolveN, d)) : d \in SolveRates}}

InitSolve ==
    /\ call \in {c \in GsCalls : VecLen(c.functions) = VecLen(c.initial_values)}
                   \cup DiffuseCalls
    /\ fluid = Idle /\ history = <<>> /\ reads = {} /\ aborted = FALSE /\ ctor = Idle

gauss_seidel_return ==
    /\ call.state = "called" /\ call.fn = "gauss_seidel"
    /\ call' = [call EXCEPT !.state = "returned"] @@
               [ret |-> gauss_seidel(call.functions, call.initial_values, call.iter)]
    /\ UNCHANGED <<fluid, history, reads, aborted, ctor>>

diffuse_return ==
    /\ call.state = "called" /\ call.fn = "diffuse"
    /\ call' = [call EXCEPT !.state = "returned"] @@
               [ret |-> diffuse(call.self, call.x, call.y, call.property)]
    /\ UNCHANGED <<fluid, history, reads, aborted, ctor>>

NextSolve == gauss_seidel_return \/ diffuse_return

SpecSolve == InitSolve /\ [][NextSolve]_vars

(***************************************************************************)
(* Properties of the solver (specification SpecSolve).                     *)
(***************************************************************************)
Returned(fn) == call.state = "returned" /\ call.fn = fn
Sum4(v) == v[0] + v[1] + v[2] + v[3]

\* the vector after `total` single-unknown updates, the (t + 1)-th one
\* replacing unknown t % m by its equation on the vector as it then stands
RECURSIVE RefUpdates(_, _, _)
RefUpdates(functions, at, total) ==
    IF at.t >= total THEN at.v
    ELSE LET i == at.t % VecLen(at.v)
         IN  RefUpdates(functions,
                        [v |-> [j \in DOMAIN at.v |->
                                  IF j = i THEN Call(functions[i], at.v) ELSE at.v[j]],
                         t |-> at.t + 1],
                        total)
\* iter sweeps of the m unknowns
SweepRef(functions, initial_values, iter) ==
    RefUpdates(functions, [v |-> initial_values, t |-> 0], iter * VecLen(initial_values))

\* C9: gauss_seidel returns the vector of exactly iter sequential sweeps
\* over one mutable copy of initial_values, a later unknown of a sweep
\* seeing the earlier ones already updated.
C9_SequentialSweeps ==
    Returned("gauss_seidel") =>
        call.ret = SweepRef(call.functions, call.initial_values, call.iter)
\* one sweep of the test system from zeros: v1 = (15 + 2 * 0.3) / 10
C9_Witness ==
    /\ Returned("gauss_seidel")
    /\ call.functions = TestSystem /\ call.initial_values = Vec(0, 4) /\ call.iter = 1
    /\ call.ret[0] = 300 /\ call.ret[1] = 1560

\* the equation as the description gives it, and with the neighbour
\* average the division by 4.0 makes of the sum
EqSum(c, k, v) == FDiv(c + FMul(k, Sum4(v)), F64(1) + k)
EqAverage(c, k, v) == FDiv(c + FDiv(FMul(k, Sum4(v)), F64(4)), F64(1) + k)

\* the four neighbour constants of the call's cell: east, west, north, south
Neighbours ==
    LET w == call.self.config.n + 2
        at(x, y) == call.property[x + w * y]
    IN  [i \in 0 .. 3 |->
           CASE i = 0 -> at(call.x + 1, call.y)
             [] i = 1 -> at(call.x - 1, call.y)
             [] i = 2 -> at(call.x, call.y + 1)
             [] i = 3 -> at(call.x, call.y - 1)]
Own == call.property[call.x + (call.self.config.n + 2) * call.y]
Stiffness == FMul(call.self.dt, call.self.config.diffusion)

\* the relaxation of the four unknowns under equation form E
RECURSIVE RelaxFrom(_, _, _, _, _)
RelaxFrom(E(_, _, _), consts, k, at, total) ==
    IF at.t >= total THEN at.v
    ELSE RelaxFrom(E, consts, k,
                   [v |-> [j \in 0 .. 3 |->
                             IF j = at.t % 4 THEN E(consts[j], k, at.v) ELSE at.v[j]],
                    t |-> at.t + 1],
                   total)
Relax(E(_, _, _), consts, k, total) ==
    RelaxFrom(E, consts, k, [v |-> Vec(0, 4), t |-> 0], total)

DiffusionFollows(E(_, _, _)) ==
    Returned("diffuse") =>
        LET solved == Relax(E, Neighbours, Stiffness, 4 * DiffuseIterations)
            eqs == diffuse_functions(call.self, call.x, call.y, call.property)
        IN  /\ \A i \in 0 .. 3 :
                 \A v \in {Vec(0, 4), Relax(E, Neighbours, Stiffness, 3), solved} :
                    Call(eqs[i], v) = E(Neighbours[i], Stiffness, v)
            /\ call.ret = E(Own, Stiffness, solved)

\* C8 (as claimed): each equation evaluates to (c + k * (v0+v1+v2+v3)) / (1 + k)
\* and the diffused value is that expression on the solved vector with the
\* cell's own source value.
C8_EquationIsSum == DiffusionFollows(EqSum)
\* C8 (amended): the same with (c + k * (v0+v1+v2+v3) / 4) / (1 + k).
C8_EquationIsAverage == DiffusionFollows(EqAverage)
C8_Witness ==
    /\ Returned("diffuse")
    /\ Stiffness > 0
    /\ Sum4(Neighbours) > 0
    /\ call.ret # Own

IsUniform(property) == \A i \in DOMAIN property : property[i] = property[0]

\* C6 (as claimed): diffusion of a globally uniform field of value c returns
\* exactly c at every interior cell, for any diffusion rate.
C6_UniformStaysExact ==
    (Returned("diffuse") /\ IsUniform(call.property)) => call.ret = call.property[0]
\* C6 (amended): it returns exactly c when k = dt * diffusion_rate = 0 or c = 0.
C6_UniformExactWithoutStiffness ==
    (/\ Returned("diffuse")
     /\ IsUniform(call.property)
     /\ (Stiffness = 0 \/ call.property[0] = 0))
    => call.ret = call.property[0]
C6_Witness ==
    /\ Returned("diffuse")
    /\ IsUniform(call.property)
    /\ call.property[0] = F64(100)
    /\ call.self.dt > 0
    /\ Stiffness = 0
    /\ call.ret = F64(100)
====
